---- MODULE Spec2Model ----
(***************************************************************************)
(* Model of the MedGemma agent (nodejs-ai-assistant/src/agents/triage/     *)
(* MedgemmaAgent.ts): its lifecycle (init, dispose), the message.new       *)
(* handler (handleMessage) with every await as a separate step, and the    *)
(* pure helpers of the handler (attachment extraction, parseText, result   *)
(* normalisation).                                                         *)
(*                                                                         *)
(* Strings are sequences of chunks: "" is <<>>, "hello" is <<"hello">>,    *)
(* and concatenation is \o.  JavaScript values are tagged records.         *)
(***************************************************************************)
EXTENDS Integers, Sequences, FiniteSets, TLC

\* ------------------------------------------------------------------ bounds
MaxCalls == 2       \* message.new events handled plus calls of dispose in a behaviour
MaxTicks == 1       \* clock ticks in a behaviour
MaxAtt == 3         \* length of an attachments list (pure check)
MaxArr == 3         \* length of an array inside a remote result (pure check)
MaxRegTime == 4     \* clock ticks in a behaviour of the registry
MaxPick == 2        \* files chosen in one use of the file picker

\* ------------------------------------------------------- program constants
TimeoutMs == 45000
TickMs == TimeoutMs

\* ------------------------------------------------------- JavaScript values
Undef == [t |-> "undefined"]
Null == [t |-> "null"]
Str(s) == [t |-> "string", s |-> s]
Num(n) == [t |-> "number", n |-> n]
Bool(b) == [t |-> "boolean", b |-> b]
Arr(a) == [t |-> "array", a |-> a]
Obj(response, text, output, data) ==
  [t |-> "object", o |-> [response |-> response, text |-> text, output |-> output, data |-> data]]

IsString(v) == v.t = "string"
IsArray(v) == v.t = "array"

\* JavaScript truthiness (ToBoolean) of a value.
Truthy(v) ==
  CASE v.t = "undefined" -> FALSE
    [] v.t = "null" -> FALSE
    [] v.t = "string" -> Len(v.s) > 0
    [] v.t = "number" -> v.n # 0
    [] v.t = "boolean" -> v.b
    [] OTHER -> TRUE

\* a || b
Or(a, b) == IF Truthy(a) THEN a ELSE b

\* String(v) for the values that reach parseText's last line.
ToStr(v) ==
  CASE v.t = "number" -> <<ToString(v.n)>>
    [] v.t = "boolean" -> IF v.b THEN <<"true">> ELSE <<"false">>
    [] v.t = "object" -> <<"[object Object]">>
    [] v.t = "string" -> v.s
    [] v.t = "null" -> <<"null">>
    [] OTHER -> <<"undefined">>

\* strs.filter(Boolean).join('\n') over a sequence of strings.
RECURSIVE JoinNonEmpty(_)
JoinNonEmpty(strs) ==
  IF strs = <<>> THEN <<>>
  ELSE LET rest == JoinNonEmpty(Tail(strs))
       IN  IF Head(strs) = <<>> THEN rest
           ELSE IF rest = <<>> THEN Head(strs)
           ELSE Head(strs) \o <<"\n">> \o rest

\* ------------------------------------------------------------- parseText
\* v.data for a value: objects carry it, everything else yields undefined.
Prop(v) == IF v.t = "object" THEN v.o.data ELSE Undef

\* v[i] (0-based) where only arrays matter: the handler applies Array.isArray
\* or a further index to the outcome, so a non-array base yields undefined.
Index(v, i) == IF v.t = "array" /\ i + 1 <= Len(v.a) THEN v.a[i + 1] ELSE Undef

\* a ?? b
Nullish(a, b) == IF a.t \in {"undefined", "null"} THEN b ELSE a

\* [obj.response, obj.text, obj.output].find(v => typeof v === 'string')
Direct(o) ==
  IF IsString(o.response) THEN o.response
  ELSE IF IsString(o.text) THEN o.text
  ELSE IF IsString(o.output) THEN o.output
  ELSE Undef

RECURSIVE parseText(_)
parseText(data) ==
  IF ~Truthy(data) THEN <<>>
  ELSE IF IsString(data) THEN data.s
  ELSE IF IsArray(data)
    THEN JoinNonEmpty([i \in 1..Len(data.a) |-> parseText(data.a[i])])
  ELSE IF data.t = "object" /\ Truthy(Direct(data.o)) THEN Direct(data.o).s
  ELSE IF data.t = "object" /\ IsArray(data.o.data)
    THEN JoinNonEmpty([i \in 1..Len(data.o.data.a) |-> parseText(data.o.data.a[i])])
  ELSE ToStr(data)

\* ------------------------------------------------- result normalisation
\* Lines 115-126: the new history and lastReply for a result, given this.history.
NormalizeConcat(result, hist) ==
  LET chatbotHistory == Index(Prop(result), 1)
      stateHistory == Index(Prop(result), 2)
  IN  IF IsArray(stateHistory) \/ IsArray(chatbotHistory)
      THEN LET got == IF IsArray(stateHistory) THEN stateHistory ELSE chatbotHistory
               newHistory == Arr(hist.a \o got.a)
           IN  [history |-> newHistory,
                lastReply |-> IF Len(newHistory.a) > 0
                              THEN Index(newHistory.a[Len(newHistory.a)], 1)
                              ELSE Str(<<>>)]
      ELSE [history |-> hist,
            lastReply |-> Str(parseText(Nullish(Prop(result), result)))]

\* Lines 118-123 with the slots tested in the other order.
NormalizePreferChatbot(result, hist) ==
  LET chatbotHistory == Index(Prop(result), 1)
      stateHistory == Index(Prop(result), 2)
  IN  IF IsArray(stateHistory) \/ IsArray(chatbotHistory)
      THEN LET newHistory == IF IsArray(chatbotHistory) THEN chatbotHistory
                             ELSE stateHistory
           IN  [history |-> newHistory,
                lastReply |-> IF Len(newHistory.a) > 0
                              THEN Index(newHistory.a[Len(newHistory.a)], 1)
                              ELSE Str(<<>>)]
      ELSE [history |-> hist,
            lastReply |-> Str(parseText(Nullish(Prop(result), result)))]

\* Lines 118-123 adopting the returned history only over an empty local one.
NormalizeKeepLocal(result, hist) ==
  LET chatbotHistory == Index(Prop(result), 1)
      stateHistory == Index(Prop(result), 2)
  IN  IF IsArray(stateHistory) \/ IsArray(chatbotHistory)
      THEN LET newHistory == IF Len(hist.a) > 0 THEN hist
                             ELSE IF IsArray(stateHistory) THEN stateHistory
                             ELSE chatbotHistory
           IN  [history |-> newHistory,
                lastReply |-> IF Len(newHistory.a) > 0
                              THEN Index(newHistory.a[Len(newHistory.a)], 1)
                              ELSE Str(<<>>)]
      ELSE [history |-> hist,
            lastReply |-> Str(parseText(Nullish(Prop(result), result)))]

Normalize(result, hist) ==
  LET chatbotHistory == Index(Prop(result), 1)
      stateHistory == Index(Prop(result), 2)
  IN  IF IsArray(stateHistory) \/ IsArray(chatbotHistory)
      THEN LET newHistory == IF IsArray(stateHistory) THEN stateHistory
                             ELSE IF IsArray(chatbotHistory) THEN chatbotHistory
                             ELSE hist
           IN  [history |-> newHistory,
                lastReply |-> IF Len(newHistory.a) > 0
                              THEN Index(newHistory.a[Len(newHistory.a)], 1)
                              ELSE Str(<<>>)]
      ELSE [history |-> hist,
            lastReply |-> Str(parseText(Nullish(Prop(result), result)))]

\* Line 129: String(lastReply || "")
ReplyText(lastReply) == ToStr(Or(lastReply, Str(<<>>)))

\* ------------------------------------------------- attachment extraction
handle_file(url) == [t |-> "file", url |-> url]

\* Lines 69-78 with the preference order of the URL fields reversed.
FilesReversed(attachments) ==
  LET images == SelectSeq(attachments, LAMBDA a: a.type = "image")
      urls == [i \in 1..Len(images) |->
                 Or(Or(Or(images[i].og_scrape_url, images[i].thumb_url),
                       images[i].asset_url), images[i].image_url)]
      imageUrls == SelectSeq(urls, LAMBDA u: IsString(u) /\ Len(u.s) > 0)
  IN  [i \in 1..Len(imageUrls) |-> handle_file(imageUrls[i].s)]

\* Lines 68-78: the files of an attachments list.
Files(attachments) ==
  LET images == SelectSeq(attachments, LAMBDA a: a.type = "image")
      urls == [i \in 1..Len(images) |->
                 Or(Or(Or(images[i].image_url, images[i].asset_url),
                       images[i].thumb_url), images[i].og_scrape_url)]
      imageUrls == SelectSeq(urls, LAMBDA u: IsString(u) /\ Len(u.s) > 0)
  IN  [i \in 1..Len(imageUrls) |-> handle_file(imageUrls[i].s)]

\* ------------------------------------------------------------ the inputs
\* Histories a remote result can carry: arrays of [user, assistant] pairs.
Pair(u, a) == Arr(<<Str(u), Str(a)>>)
H1 == Arr(<<Pair(<<"hi">>, <<"hello">>)>>)
H2 == Arr(<<Pair(<<"hi">>, <<"hello">>), Pair(<<"more">>, <<"again">>)>>)
HEmptyReply == Arr(<<Pair(<<"hi">>, <<>>)>>)
Data(a) == Obj(Undef, Undef, Undef, Arr(a))

\* Results the remote predict call resolves with in the agent's behaviours.
RemoteResults ==
  { Data(<<Str(<<>>), Obj(Str(<<"hello">>), Undef, Undef, Undef), Str(<<"world">>)>>),
    Data(<<Str(<<>>), H1>>),
    Data(<<Str(<<>>), H1, H2>>),
    Null }

\* Attachments of the messages delivered in the agent's behaviours.
Attachment(type, image_url, asset_url, thumb_url, og_scrape_url) ==
  [type |-> type, image_url |-> image_url, asset_url |-> asset_url,
   thumb_url |-> thumb_url, og_scrape_url |-> og_scrape_url]
ExampleAttachments ==
  << Attachment("image", Str(<<"u1">>), Undef, Undef, Undef),
     Attachment("file", Undef, Undef, Undef, Undef),
     Attachment("image", Undef, Undef, Str(<<"u2">>), Undef) >>

\* Inbound message.new events: no message, or a message with its flag and attachments.
Event(hasMessage, ai_generated) == [hasMessage |-> hasMessage, ai_generated |-> ai_generated]
Events == { Event(FALSE, FALSE) } \cup { Event(TRUE, ai) : ai \in BOOLEAN }
MessageAttachments == { <<>>, ExampleAttachments }

\* Values of process.env.GRADIO_BASE_URL, GRADIO_API_NAME, GRADIO_PREDICT_PATH.
BaseUrls == { Undef, Str(<<"https://x.gradio.live">>) }
ApiNames == { Undef, Str(<<"/api">>) }
PredictPaths == { Undef, Str(<<"/predict">>) }

\* Errors a catch block can receive: Error instances and other thrown values.
Err(isError, message) == [isError |-> isError, message |-> message]
NoError == Err(FALSE, <<>>)
TimeoutError == Err(TRUE, <<"MedGemma timed out">>)
RemoteErrors == { Err(TRUE, <<"predict failed">>), Err(FALSE, <<"status">>) }
BackendError == Err(TRUE, <<"StreamChat error">>)
FileError == Err(TRUE, <<"handle_file failed">>)

\* ------------------------------------------------------------- the state
VARIABLES
  now,                \* Date.now()
  baseUrl,            \* process.env.GRADIO_BASE_URL
  apiName,            \* process.env.GRADIO_API_NAME
  predictPath,        \* process.env.GRADIO_PREDICT_PATH
  lastInteractionTs,  \* MedgemmaAgent.lastInteractionTs
  history,            \* MedgemmaAgent.history
  gradioClient,       \* MedgemmaAgent.gradioClient: "unset", "open", "closed"
  initPc,             \* position of init: "new", "connecting", "ready", "failed"
  listeners,          \* registrations of this.handler for message.new
  chatConnected,      \* the chat session of chatClient
  ignorable,          \* events handed to the handler with no message or ai_generated set
  ex,                 \* the invocations of handleMessage that passed the filter
  channel,            \* the placeholder messages of the channel, by id
  disp,               \* the calls of dispose
  arg, ret, applied,  \* argument and result of a pure function under check
  agents,             \* the registry: the agent of each channel, or NoAgent
  subscribed,         \* message.new handlers subscribed on each channel
  lastOp,             \* the last operation of the registry and its outcome
  placeholders,       \* placeholders created for the last inbound message
  value,              \* ChatInput: the value prop (the text of the input)
  inputFiles,         \* ChatInput: the files state
  isLoading,          \* ChatInput: the isLoading state
  aiState,            \* ChatInterface: aiState of the channel
  sending,            \* ChatInput: the payloads of the submits awaiting their send
  outcome             \* ChatInput: how the last finished submit ended

vars == <<now, baseUrl, apiName, predictPath, lastInteractionTs, history, gradioClient, initPc, listeners,
          chatConnected, ignorable, ex, channel, disp, arg, ret, applied,
          agents, subscribed, lastOp, placeholders,
          value, inputFiles, isLoading, aiState, sending, outcome>>

env == <<baseUrl, apiName, predictPath>>
agentVars == <<now, env, lastInteractionTs, history, gradioClient, initPc, listeners,
               chatConnected, ignorable, ex, channel, disp>>
pureVars == <<arg, ret, applied>>
regVars == <<agents, subscribed, lastOp, placeholders>>
inputVars == <<value, inputFiles, isLoading, aiState, sending, outcome>>

AgentInit ==
  /\ now = 0
  /\ baseUrl \in BaseUrls
  /\ apiName \in ApiNames
  /\ predictPath \in PredictPaths
  /\ lastInteractionTs = 0
  /\ history = Arr(<<>>)
  /\ gradioClient = "unset"
  /\ initPc = "new"
  /\ listeners = 0
  /\ chatConnected = TRUE
  /\ ignorable = 0
  /\ ex = <<>>
  /\ channel = <<>>
  /\ disp = <<>>

\* No pure function is under check.
PureIdle == arg = Undef /\ ret = <<>> /\ applied = FALSE

\* The channels a registry serves, and a registry with no agent.
Channels == {"c1", "c2"}
NoAgent == [initPc |-> "none", lastInteractionTs |-> 0]
RegIdle ==
  /\ agents = [c \in Channels |-> NoAgent]
  /\ subscribed = [c \in Channels |-> 0]
  /\ lastOp = "none"
  /\ placeholders = 0

\* chat-input.tsx lines 35-36 and chat-interface.tsx line 122: a chat input
\* as mounted, nothing typed, nothing attached, nothing being sent.
InputIdle ==
  /\ value = <<>>
  /\ inputFiles = <<>>
  /\ isLoading = FALSE
  /\ aiState = "none"
  /\ sending = <<>>
  /\ outcome = "none"

Init == AgentInit /\ PureIdle /\ RegIdle /\ InputIdle

\* The calls made on the agent so far: events handled and calls of dispose.
Calls == Len(ex) + ignorable + Len(disp)

\* ------------------------------------------------------------------ init
\* Lines 30-35: a missing GRADIO_BASE_URL throws; otherwise init awaits the
\* import and Client.connect.
InitCall ==
  /\ initPc = "new"
  /\ initPc' = IF Truthy(baseUrl) THEN "connecting" ELSE "failed"
  /\ UNCHANGED <<now, env, lastInteractionTs, history, gradioClient, listeners,
                 chatConnected, ignorable, ex, channel, disp, pureVars, regVars, inputVars>>

\* init subscribing the handler without storing the connection.
InitConnectOkNoStore ==
  /\ initPc = "connecting"
  /\ listeners' = listeners + 1
  /\ initPc' = "ready"
  /\ UNCHANGED <<now, env, lastInteractionTs, history, gradioClient, chatConnected,
                 ignorable, ex, channel, disp, pureVars, regVars, inputVars>>

\* Lines 38-39: the connection is stored, then the handler is subscribed.
InitConnectOk ==
  /\ initPc = "connecting"
  /\ gradioClient' = "open"
  /\ listeners' = listeners + 1
  /\ initPc' = "ready"
  /\ UNCHANGED <<now, env, lastInteractionTs, history, chatConnected, ignorable,
                 ex, channel, disp, pureVars, regVars, inputVars>>

\* init with line 39 placed before line 38: subscribed, then the connect rejects.
InitConnectFailSubscribed ==
  /\ initPc = "connecting"
  /\ initPc' = "failed"
  /\ listeners' = listeners + 1
  /\ UNCHANGED <<now, env, lastInteractionTs, history, gradioClient,
                 chatConnected, ignorable, ex, channel, disp, pureVars, regVars, inputVars>>

\* Line 38 rejects: init rejects before line 39.
InitConnectFail ==
  /\ initPc = "connecting"
  /\ initPc' = "failed"
  /\ UNCHANGED <<now, env, lastInteractionTs, history, gradioClient, listeners,
                 chatConnected, ignorable, ex, channel, disp, pureVars, regVars, inputVars>>

\* --------------------------------------------------------------- dispose
\* Line 19 as a bare this.gradioClient.close(): a TypeError on an unset handle.
DisposeCallUnguarded(closeOk) ==
  /\ Calls < MaxCalls
  /\ listeners' = 0
  /\ gradioClient' = IF gradioClient = "open" /\ closeOk THEN "closed" ELSE gradioClient
  /\ disp' = Append(disp, IF gradioClient = "unset" \/ ~closeOk THEN "rejected"
                          ELSE "disconnecting")
  /\ UNCHANGED <<now, env, lastInteractionTs, history, initPc, chatConnected,
                 ignorable, ex, channel, pureVars, regVars, inputVars>>

\* Lines 18-20 up to the await: off removes every registration of the handler
\* (none is not an error), close is called on a set gradioClient and its throw
\* is caught (a promise it returns is not awaited), disconnectUser is issued.
DisposeCall(closeOk) ==
  /\ Calls < MaxCalls
  /\ listeners' = 0
  /\ gradioClient' = IF gradioClient = "open" /\ closeOk THEN "closed" ELSE gradioClient
  /\ disp' = Append(disp, "disconnecting")
  /\ UNCHANGED <<now, env, lastInteractionTs, history, initPc, chatConnected,
                 ignorable, ex, channel, pureVars, regVars, inputVars>>

\* Line 20: disconnectUser resolves and dispose resolves.
DisconnectOk(d) ==
  /\ disp[d] = "disconnecting"
  /\ disp' = [disp EXCEPT ![d] = "resolved"]
  /\ chatConnected' = FALSE
  /\ UNCHANGED <<now, env, lastInteractionTs, history, gradioClient, initPc,
                 listeners, ignorable, ex, channel, pureVars, regVars, inputVars>>

\* Line 20: disconnectUser rejects and, being awaited bare, so does dispose.
DisconnectFail(d) ==
  /\ disp[d] = "disconnecting"
  /\ disp' = [disp EXCEPT ![d] = "rejected"]
  /\ UNCHANGED <<now, env, lastInteractionTs, history, gradioClient, initPc,
                 listeners, chatConnected, ignorable, ex, channel, pureVars, regVars, inputVars>>

\* ----------------------------------------------------------------- clock
Tick ==
  /\ now < MaxTicks * TickMs
  /\ now' = now + TickMs
  /\ UNCHANGED <<env, lastInteractionTs, history, gradioClient, initPc, listeners,
                 chatConnected, ignorable, ex, channel, disp, pureVars, regVars, inputVars>>

\* --------------------------------------------------------- handleMessage
\* Line 43 without the ai_generated test.
IgnoredNoAi(ev) == ~ev.hasMessage

\* Line 43: if (!e.message || e.message.ai_generated) return;
Ignored(ev) == ~ev.hasMessage \/ ev.ai_generated

\* The invocation of handleMessage for an event that passed line 43, suspended
\* at the await of line 48 (or rejected at line 44 if there is no message).
NewExchange(ev) ==
  [pc |-> IF ev.hasMessage THEN "sendMessage" ELSE "rejected",
   messageId |-> 0,
   tp |-> "none",          \* tryPredict: "none", "primary", "fallback", "settled"
   start |-> 0,            \* when withTimeout armed its timer (while it is armed)
   timedOut |-> FALSE,     \* whether the timer of withTimeout fired
   mutated |-> FALSE,      \* whether line 122 changed this.history
   error |-> NoError,      \* the value the catch block received (until it is written)
   result |-> Undef,       \* the result of withTimeout (until lastReply is written)
   lastReply |-> <<>>]     \* String(lastReply || "") (until it is written)

\* Lines 42-48 with line 46 moved before the filter of line 43.
HandleMessageTouchFirst(ev) ==
  /\ listeners > 0
  /\ chatConnected
  /\ Calls < MaxCalls
  /\ ignorable' = IF ~ev.hasMessage \/ ev.ai_generated THEN ignorable + 1 ELSE ignorable
  /\ lastInteractionTs' = now
  /\ ex' = IF Ignored(ev) THEN ex ELSE Append(ex, NewExchange(ev))
  /\ UNCHANGED <<now, env, history, gradioClient, initPc, listeners, chatConnected,
                 channel, disp, pureVars, regVars, inputVars>>

\* Lines 42-48: the handler is invoked with a message.new event, which the
\* connected chat session of chatClient delivers to its subscribed handler.
HandleMessage(ev) ==
  /\ listeners > 0
  /\ chatConnected
  /\ Calls < MaxCalls
  /\ ignorable' = IF ~ev.hasMessage \/ ev.ai_generated THEN ignorable + 1 ELSE ignorable
  /\ IF Ignored(ev)
     THEN UNCHANGED <<lastInteractionTs, ex>>
     ELSE /\ lastInteractionTs' = now
          /\ ex' = Append(ex, NewExchange(ev))
  /\ UNCHANGED <<now, env, history, gradioClient, initPc, listeners, chatConnected,
                 channel, disp, pureVars, regVars, inputVars>>

\* Line 48 resolves: the placeholder exists; line 52 is issued.
SendMessageOk(e) ==
  /\ ex[e].pc = "sendMessage"
  /\ channel' = Append(channel, [text |-> <<>>, ai_state |-> "none", writes |-> 0, clears |-> 0])
  /\ ex' = [ex EXCEPT ![e].pc = "thinking", ![e].messageId = Len(channel) + 1]
  /\ UNCHANGED <<now, env, lastInteractionTs, history, gradioClient, initPc, listeners,
                 chatConnected, ignorable, disp, pureVars, regVars, inputVars>>

\* Line 61: the path the predict calls of lines 93 and 96 are made with.
ApiName == Or(apiName, Str(<<"/chat">>))

\* Line 140: the hint of the diagnostic, and lines 147-151: the error text.
Hint ==
  <<"Gradio call failed (baseUrl=">> \o ToStr(baseUrl) \o <<", apiName=">>
    \o ToStr(Or(Or(apiName, predictPath), Str(<<"/chat">>))) \o <<")">>
ErrorText(error) ==
  IF error.isError THEN error.message \o <<" - ">> \o Hint
  ELSE <<"Error generating the message - ">> \o Hint

\* Line 52 resolves; lines 60-100 run up to the await of withTimeout: the lazy
\* connect (lines 64-66), the files of the event's attachments, which line 68
\* reads here (lines 68-78, handle_file may throw), and the primary predict
\* call (line 93).  A throw enters the catch block (line 141).
StartPredict(e, attachments, connectOk, fileOk) ==
  /\ ex[e].pc = "thinking"
  /\ channel' = [channel EXCEPT ![ex[e].messageId].ai_state = "AI_STATE_THINKING"]
  /\ LET lazy == gradioClient = "unset"
         files == Files(attachments)
         thrown == IF lazy /\ ~connectOk THEN Err(TRUE, <<"connect failed">>)
                   ELSE IF files # <<>> /\ ~fileOk THEN FileError
                   ELSE NoError
     IN  /\ gradioClient' = IF lazy /\ connectOk THEN "open" ELSE gradioClient
         /\ ex' = IF thrown # NoError
                  THEN [ex EXCEPT ![e].pc = "cError", ![e].error = thrown]
                  ELSE [ex EXCEPT ![e].pc = "predict", ![e].tp = "primary",
                                  ![e].start = now]
  /\ UNCHANGED <<now, env, lastInteractionTs, history, initPc, listeners,
                 chatConnected, ignorable, disp, pureVars, regVars, inputVars>>

\* Lines 115-128 run for whatever tryPredict resolves with, timeout or not.
ResolvedAlways(e, result) ==
  /\ history' = Normalize(result, history).history
  /\ ex' = [ex EXCEPT ![e].tp = "settled", ![e].pc = "update", ![e].start = 0,
                      ![e].result = result,
                      ![e].mutated = (Normalize(result, history).history # history),
                      ![e].lastReply = ReplyText(Normalize(result, history).lastReply)]

\* Lines 115-128 for a result: history and lastReply are set and the text
\* update is issued.  Nothing runs if the timeout already rejected the await.
Resolved(e, result) ==
  IF ex[e].pc = "predict"
  THEN /\ history' = Normalize(result, history).history
       /\ ex' = [ex EXCEPT ![e].tp = "settled", ![e].pc = "update", ![e].start = 0,
                           ![e].result = result,
                           ![e].mutated = (Normalize(result, history).history # history),
                           ![e].lastReply = ReplyText(Normalize(result, history).lastReply)]
  ELSE /\ ex' = [ex EXCEPT ![e].tp = "settled"]
       /\ UNCHANGED history

\* Line 93 resolves.
PrimaryOk(e, result) ==
  /\ ex[e].tp = "primary"
  /\ Resolved(e, result)
  /\ UNCHANGED <<now, env, lastInteractionTs, gradioClient, initPc, listeners,
                 chatConnected, ignorable, channel, disp, pureVars, regVars, inputVars>>

\* tryPredict without its catch: a rejection of line 93 rejects tryPredict.
PrimaryFailNoRetry(e) ==
  /\ ex[e].tp = "primary"
  /\ ex' = IF ex[e].pc = "predict"
           THEN [ex EXCEPT ![e].tp = "settled", ![e].pc = "cError", ![e].start = 0,
                           ![e].error = Err(TRUE, <<"predict failed">>)]
           ELSE [ex EXCEPT ![e].tp = "settled"]
  /\ UNCHANGED <<now, env, lastInteractionTs, history, gradioClient, initPc, listeners,
                 chatConnected, ignorable, channel, disp, pureVars, regVars, inputVars>>

\* Line 93 rejects: lines 95-96 issue the positional call with this.history.
PrimaryFail(e) ==
  /\ ex[e].tp = "primary"
  /\ ex' = [ex EXCEPT ![e].tp = "fallback"]
  /\ UNCHANGED <<now, env, lastInteractionTs, history, gradioClient, initPc, listeners,
                 chatConnected, ignorable, channel, disp, pureVars, regVars, inputVars>>

\* Line 96 resolves.
FallbackOk(e, result) ==
  /\ ex[e].tp = "fallback"
  /\ Resolved(e, result)
  /\ UNCHANGED <<now, env, lastInteractionTs, gradioClient, initPc, listeners,
                 chatConnected, ignorable, channel, disp, pureVars, regVars, inputVars>>

\* Line 96 rejects: tryPredict rejects, and the catch block runs unless the
\* timeout already rejected the await.
FallbackFail(e, error) ==
  /\ ex[e].tp = "fallback"
  /\ ex' = IF ex[e].pc = "predict"
           THEN [ex EXCEPT ![e].tp = "settled", ![e].pc = "cError", ![e].start = 0,
                           ![e].error = error]
           ELSE [ex EXCEPT ![e].tp = "settled"]
  /\ UNCHANGED <<now, env, lastInteractionTs, history, gradioClient, initPc, listeners,
                 chatConnected, ignorable, channel, disp, pureVars, regVars, inputVars>>

\* Line 87: the timer of withTimeout fires while the await is pending.
Timeout(e) ==
  /\ ex[e].pc = "predict"
  /\ now >= ex[e].start + TimeoutMs
  /\ ex' = [ex EXCEPT ![e].pc = "cError", ![e].start = 0, ![e].timedOut = TRUE,
                      ![e].error = TimeoutError]
  /\ UNCHANGED <<now, env, lastInteractionTs, history, gradioClient, initPc, listeners,
                 chatConnected, ignorable, channel, disp, pureVars, regVars, inputVars>>

\* Line 128 addressing the most recent placeholder of the channel.
UpdateOkMostRecent(e) ==
  /\ ex[e].pc = "update"
  /\ channel' = [channel EXCEPT ![Len(channel)].text = ex[e].lastReply,
                                ![Len(channel)].writes = @ + 1]
  /\ ex' = [ex EXCEPT ![e].pc = "clear", ![e].lastReply = <<>>, ![e].result = Undef]
  /\ UNCHANGED <<now, env, lastInteractionTs, history, gradioClient, initPc, listeners,
                 chatConnected, ignorable, disp, pureVars, regVars, inputVars>>

\* Line 128 resolves: the placeholder carries the reply; line 132 is issued.
UpdateOk(e) ==
  /\ ex[e].pc = "update"
  /\ channel' = [channel EXCEPT ![ex[e].messageId].text = ex[e].lastReply,
                                ![ex[e].messageId].writes = @ + 1]
  /\ ex' = [ex EXCEPT ![e].pc = "clear", ![e].lastReply = <<>>, ![e].result = Undef]
  /\ UNCHANGED <<now, env, lastInteractionTs, history, gradioClient, initPc, listeners,
                 chatConnected, ignorable, disp, pureVars, regVars, inputVars>>

\* Line 132 resolves: the handler returns.
ClearOk(e) ==
  /\ ex[e].pc = "clear"
  /\ channel' = [channel EXCEPT ![ex[e].messageId].ai_state = "cleared",
                                ![ex[e].messageId].clears = @ + 1]
  /\ ex' = [ex EXCEPT ![e].pc = "done"]
  /\ UNCHANGED <<now, env, lastInteractionTs, history, gradioClient, initPc, listeners,
                 chatConnected, ignorable, disp, pureVars, regVars, inputVars>>

\* Line 141 resolves: the ERROR indicator is shown; line 147 is issued.
CatchErrorOk(e) ==
  /\ ex[e].pc = "cError"
  /\ channel' = [channel EXCEPT ![ex[e].messageId].ai_state = "AI_STATE_ERROR"]
  /\ ex' = [ex EXCEPT ![e].pc = "cUpdate"]
  /\ UNCHANGED <<now, env, lastInteractionTs, history, gradioClient, initPc, listeners,
                 chatConnected, ignorable, disp, pureVars, regVars, inputVars>>

\* Line 147 resolves: the placeholder carries the diagnostic; line 152 is issued.
CatchUpdateOk(e) ==
  /\ ex[e].pc = "cUpdate"
  /\ channel' = [channel EXCEPT ![ex[e].messageId].text = ErrorText(ex[e].error),
                                ![ex[e].messageId].writes = @ + 1]
  /\ ex' = [ex EXCEPT ![e].pc = "cClear", ![e].error = NoError]
  /\ UNCHANGED <<now, env, lastInteractionTs, history, gradioClient, initPc, listeners,
                 chatConnected, ignorable, disp, pureVars, regVars, inputVars>>

\* Line 152 resolves: the handler returns.
CatchClearOk(e) ==
  /\ ex[e].pc = "cClear"
  /\ channel' = [channel EXCEPT ![ex[e].messageId].ai_state = "cleared",
                                ![ex[e].messageId].clears = @ + 1]
  /\ ex' = [ex EXCEPT ![e].pc = "done"]
  /\ UNCHANGED <<now, env, lastInteractionTs, history, gradioClient, initPc, listeners,
                 chatConnected, ignorable, disp, pureVars, regVars, inputVars>>

\* A call of the chat backend rejects and changes nothing in the channel.
\* Lines 48 and 52 are outside the try block and lines 141-156 are inside the
\* catch block: the handler's promise rejects.  Lines 128 and 132 are inside
\* the try block: the catch block runs.
BackendFail(e) ==
  /\ ex[e].pc \in {"sendMessage", "thinking", "update", "clear", "cError", "cUpdate", "cClear"}
  /\ ex' = IF ex[e].pc \in {"update", "clear"}
           THEN [ex EXCEPT ![e].pc = "cError", ![e].error = BackendError,
                           ![e].lastReply = <<>>, ![e].result = Undef]
           ELSE [ex EXCEPT ![e].pc = "rejected", ![e].error = NoError]
  /\ UNCHANGED <<now, env, lastInteractionTs, history, gradioClient, initPc, listeners,
                 chatConnected, ignorable, channel, disp, pureVars, regVars, inputVars>>

\* ------------------------------------------------------ the specification
Next ==
  \/ InitCall
  \/ InitConnectOk
  \/ InitConnectFail
  \/ \E closeOk \in BOOLEAN : DisposeCall(closeOk)
  \/ \E d \in 1..Len(disp) : DisconnectOk(d)
  \/ \E d \in 1..Len(disp) : DisconnectFail(d)
  \/ Tick
  \/ \E ev \in Events : HandleMessage(ev)
  \/ \E e \in 1..Len(ex) : SendMessageOk(e)
  \/ \E e \in 1..Len(ex), att \in MessageAttachments, connectOk \in BOOLEAN, fileOk \in BOOLEAN :
       StartPredict(e, att, connectOk, fileOk)
  \/ \E e \in 1..Len(ex), result \in RemoteResults : PrimaryOk(e, result)
  \/ \E e \in 1..Len(ex) : PrimaryFail(e)
  \/ \E e \in 1..Len(ex), result \in RemoteResults : FallbackOk(e, result)
  \/ \E e \in 1..Len(ex), error \in RemoteErrors : FallbackFail(e, error)
  \/ \E e \in 1..Len(ex) : Timeout(e)
  \/ \E e \in 1..Len(ex) : UpdateOk(e)
  \/ \E e \in 1..Len(ex) : ClearOk(e)
  \/ \E e \in 1..Len(ex) : CatchErrorOk(e)
  \/ \E e \in 1..Len(ex) : CatchUpdateOk(e)
  \/ \E e \in 1..Len(ex) : CatchClearOk(e)
  \/ \E e \in 1..Len(ex) : BackendFail(e)

Spec == Init /\ [][Next]_vars

\* ------------------------------------------- the pure functions, applied
\* Values a remote result is built from.
Leaves ==
  { Undef, Null, Str(<<>>), Str(<<"hello">>), Str(<<"world">>), Num(0), Num(5),
    Bool(TRUE), Bool(FALSE) }
FlatObjects ==
  { Obj(response, text, Undef, Undef) :
      response \in {Undef, Str(<<>>), Str(<<"hello">>)}, text \in {Undef, Str(<<"world">>)} }
Elements == Leaves \cup FlatObjects \cup { Arr(<<>>), H1, HEmptyReply }
Arrays == UNION { [1..n -> Elements] : n \in 0..MaxArr }
\* A result is a bare element, an array of elements, or { data: [array] }.
ParseInputs(a) == (IF Len(a) = 1 THEN {a[1]} ELSE {}) \cup {Arr(a), Data(a)}

\* Attachments lists of an inbound message.
AttachmentPool ==
  { Attachment("image", i, a, t, Undef) :
      i \in {Undef, Str(<<>>), Str(<<"u1">>)}, a \in {Undef, Str(<<"u3">>)},
      t \in {Undef, Str(<<"u2">>)} }
  \cup { Attachment("image", i, Undef, t, Str(<<"u4">>)) :
           i \in {Undef, Str(<<>>)}, t \in {Undef, Str(<<"u2">>)} }
  \cup { Attachment("file", i, Undef, Undef, Undef) : i \in {Undef, Str(<<"u1">>)} }
AttachmentLists == UNION { [1..n -> AttachmentPool] : n \in 0..MaxAtt }

\* Lines 115-129 applied to a result, with an empty this.history.
ApplyReply ==
  /\ ~applied
  /\ applied' = TRUE
  /\ ret' = ReplyText(Normalize(arg, Arr(<<>>)).lastReply)
  /\ UNCHANGED <<arg, agentVars, regVars, inputVars>>

\* Lines 68-78 applied to an attachments list.
ApplyFiles ==
  /\ ~applied
  /\ applied' = TRUE
  /\ ret' = Files(arg)
  /\ UNCHANGED <<arg, agentVars, regVars, inputVars>>

\* Lines 115-129 applied to a result, with this.history as it stands.
ApplyNormalize ==
  /\ ~applied
  /\ applied' = TRUE
  /\ history' = Normalize(arg, history).history
  /\ ret' = ReplyText(Normalize(arg, history).lastReply)
  /\ UNCHANGED <<arg, now, env, lastInteractionTs, gradioClient, initPc, listeners,
                 chatConnected, ignorable, ex, channel, disp, regVars, inputVars>>

\* An agent that holds no history or the history of earlier exchanges.
InitNormalize ==
  /\ now = 0 /\ baseUrl = Undef /\ apiName = Undef /\ predictPath = Undef
  /\ lastInteractionTs = 0
  /\ history \in {Arr(<<>>), H2}
  /\ gradioClient = "unset" /\ initPc = "new" /\ listeners = 0 /\ chatConnected = TRUE
  /\ ignorable = 0 /\ ex = <<>> /\ channel = <<>> /\ disp = <<>>
  /\ ret = <<>> /\ applied = FALSE
  /\ RegIdle /\ InputIdle
  /\ \E a \in Arrays : arg \in ParseInputs(a)
NextNormalize == ApplyNormalize
SpecNormalize == InitNormalize /\ [][NextNormalize]_vars

InitParse ==
  /\ AgentInit /\ env = <<Undef, Undef, Undef>> /\ ret = <<>> /\ applied = FALSE
  /\ RegIdle /\ InputIdle
  /\ \E a \in Arrays : arg \in ParseInputs(a)
NextParse == ApplyReply
SpecParse == InitParse /\ [][NextParse]_vars

InitFiles ==
  /\ AgentInit /\ env = <<Undef, Undef, Undef>> /\ ret = <<>> /\ applied = FALSE
  /\ RegIdle /\ InputIdle
  /\ arg \in AttachmentLists
NextFiles == ApplyFiles
SpecFiles == InitFiles /\ [][NextFiles]_vars

\* ------------------------------------------------------------ the registry
\* The registry keeps at most one agent per channel, starts and stops agents
\* and sweeps the inactive ones.  Its code is not part of the sources at hand:
\* its operations follow section 4.4 of the specification, and what they do to
\* an agent follows MedgemmaAgent.ts.  Time is counted in sweep intervals.
InactivityThreshold == 2

restVars == <<env, lastInteractionTs, history, gradioClient, initPc, listeners,
              chatConnected, ignorable, ex, channel, disp>>

\* createAgent and line 7: a new agent, its init (lines 29-38) under way.
NewAgent(t) == [initPc |-> "connecting", lastInteractionTs |-> t]

\* Line 39: the handler of the channel's agent is subscribed.
Subscribe(c) == [subscribed EXCEPT ![c] = @ + 1]

\* dispose without line 18.
UnsubscribedNot(n, a) == n

\* Line 18: the subscriptions left of n when agent a is disposed.
Unsubscribed(n, a) == IF a.initPc = "ready" /\ n > 0 THEN n - 1 ELSE n

\* Line 46, for a qualifying message at time t.
Touch(a, t) == [a EXCEPT !.lastInteractionTs = t]

\* getLastInteraction returning a value that is never refreshed.
GetLastInteractionStale(a) == 0

\* Line 27.
GetLastInteraction(a) == a.lastInteractionTs

Inactive(a) == a # NoAgent /\ now - GetLastInteraction(a) > InactivityThreshold

\* start(channelRef): AlreadyRunningError if the channel has an agent,
\* otherwise the agent is created, registered and initialized.
start(c) ==
  /\ IF agents[c] # NoAgent
     THEN /\ lastOp' = "AlreadyRunningError"
          /\ UNCHANGED agents
     ELSE /\ lastOp' = "start"
          /\ agents' = [agents EXCEPT ![c] = NewAgent(now)]
  /\ UNCHANGED <<now, subscribed, placeholders, restVars, pureVars, inputVars>>

\* init of the channel's agent resolves: start returns the agent.
startInitOk(c) ==
  /\ agents[c].initPc = "connecting"
  /\ agents' = [agents EXCEPT ![c].initPc = "ready"]
  /\ subscribed' = Subscribe(c)
  /\ lastOp' = "started"
  /\ UNCHANGED <<now, placeholders, restVars, pureVars, inputVars>>

\* init of the channel's agent rejects: start fails and keeps no agent.
startInitFail(c) ==
  /\ agents[c].initPc = "connecting"
  /\ agents' = [agents EXCEPT ![c] = NoAgent]
  /\ lastOp' = "ConnectionError"
  /\ UNCHANGED <<now, subscribed, placeholders, restVars, pureVars, inputVars>>

\* stop(channelRef): the channel's agent, if any, is disposed and forgotten.
stop(c) ==
  /\ agents' = [agents EXCEPT ![c] = NoAgent]
  /\ subscribed' = [subscribed EXCEPT ![c] = Unsubscribed(@, agents[c])]
  /\ lastOp' = "stop"
  /\ UNCHANGED <<now, placeholders, restVars, pureVars, inputVars>>

\* A sweep tick: stop for every agent that is inactive.
sweep ==
  /\ agents' = [c \in Channels |-> IF Inactive(agents[c]) THEN NoAgent ELSE agents[c]]
  /\ subscribed' = [c \in Channels |->
                      IF Inactive(agents[c]) THEN Unsubscribed(subscribed[c], agents[c])
                      ELSE subscribed[c]]
  /\ lastOp' = IF \E c \in Channels : Inactive(agents[c]) THEN "sweep-disposed" ELSE "sweep"
  /\ UNCHANGED <<now, placeholders, restVars, pureVars, inputVars>>

\* Lines 42-48, for a qualifying message on a channel: every subscribed
\* handler records the time and creates a placeholder.
Message(c) ==
  /\ subscribed[c] > 0
  /\ placeholders' = subscribed[c]
  /\ agents' = [agents EXCEPT ![c] = IF @.initPc = "ready" THEN Touch(@, now) ELSE @]
  /\ lastOp' = "message"
  /\ UNCHANGED <<now, subscribed, restVars, pureVars, inputVars>>

\* A sweep interval passes.
RegTick ==
  /\ now < MaxRegTime
  /\ now' = now + 1
  /\ lastOp' = "tick"
  /\ UNCHANGED <<agents, subscribed, placeholders, restVars, pureVars, inputVars>>

InitRegistry ==
  AgentInit /\ env = <<Undef, Undef, Undef>> /\ PureIdle /\ RegIdle /\ InputIdle
NextRegistry ==
  \/ \E c \in Channels : start(c)
  \/ \E c \in Channels : startInitOk(c)
  \/ \E c \in Channels : startInitFail(c)
  \/ \E c \in Channels : stop(c)
  \/ sweep
  \/ \E c \in Channels : Message(c)
  \/ RegTick
SpecRegistry == InitRegistry /\ [][NextRegistry]_vars

\* ---------------------------------------------------------- the chat input
\* The ChatInput component (chat-input.tsx) as ChatInterface mounts it, with
\* onSubmit given and isGenerating derived from the channel's aiState.
MaxFiles == 4

\* Texts of the input: empty, blank, and text with and without blanks around it.
Texts == { <<>>, <<" ">>, <<"hi">>, <<" ", "hi", " ">> }

\* Files the picker offers: images and one that is not an image.
FilePool ==
  { [name |-> "a.png", type |-> <<"image/", "png">>],
    [name |-> "b.jpg", type |-> <<"image/", "jpeg">>],
    [name |-> "c.pdf", type |-> <<"application/", "pdf">>] }
Picks == UNION { [1..n -> FilePool] : n \in 1..MaxPick }

\* String.prototype.trim over chunks.
RECURSIVE trimStart(_)
trimStart(v) == IF v # <<>> /\ Head(v) = " " THEN trimStart(Tail(v)) ELSE v
RECURSIVE trimEnd(_)
trimEnd(v) == IF v # <<>> /\ v[Len(v)] = " " THEN trimEnd(SubSeq(v, 1, Len(v) - 1)) ELSE v
trim(v) == trimEnd(trimStart(v))

\* chat-interface.tsx lines 125-128.
isGenerating == aiState \in {"AI_STATE_THINKING", "AI_STATE_GENERATING", "AI_STATE_EXTERNAL_SOURCES"}

inputRest == <<agentVars, pureVars, regVars>>

\* Line 67 without the isLoading test.
CanSubmitWhileLoading == (trim(value) # <<>> \/ Len(inputFiles) > 0) /\ ~isGenerating

\* Lines 65-67: the condition under which handleSubmit goes on.
CanSubmit == (trim(value) # <<>> \/ Len(inputFiles) > 0) /\ ~isLoading /\ ~isGenerating

\* Lines 63-73: handleSubmit up to its await; it returns at line 68 otherwise.
handleSubmit ==
  /\ IF CanSubmit
     THEN /\ isLoading' = TRUE
          /\ sending' = Append(sending, [text |-> trim(value), files |-> inputFiles])
     ELSE UNCHANGED <<isLoading, sending>>
  /\ UNCHANGED <<value, inputFiles, aiState, outcome, inputRest>>

\* Lines 73 and 77-86: the send resolved; text and files are cleared.
SubmitOk ==
  /\ sending # <<>>
  /\ sending' = Tail(sending)
  /\ value' = <<>>
  /\ inputFiles' = <<>>
  /\ isLoading' = FALSE
  /\ outcome' = "sent"
  /\ UNCHANGED <<aiState, inputRest>>

\* Lines 73 and 83-86: the send rejected; the error is logged.
SubmitFail ==
  /\ sending # <<>>
  /\ sending' = Tail(sending)
  /\ isLoading' = FALSE
  /\ outcome' = "error"
  /\ UNCHANGED <<value, inputFiles, aiState, inputRest>>

\* Lines 125 and 133: the user edits the text, which the disabled textarea
\* does not allow while loading or generating.
onValueChange(text) ==
  /\ ~isLoading /\ ~isGenerating
  /\ value' = text
  /\ UNCHANGED <<inputFiles, isLoading, aiState, sending, outcome, inputRest>>

\* Lines 90-96: the picked images are added, up to four files in all.
onPickFiles(picked) ==
  /\ LET images == SelectSeq(picked, LAMBDA f : Head(f.type) = "image/")
         all == inputFiles \o images
     IN  inputFiles' = IF Len(images) > 0
                       THEN SubSeq(all, 1, IF Len(all) < MaxFiles THEN Len(all) ELSE MaxFiles)
                       ELSE inputFiles
  /\ UNCHANGED <<value, isLoading, aiState, sending, outcome, inputRest>>

\* Lines 98-100.
removeFile(index) ==
  /\ index \in 1..Len(inputFiles)
  /\ inputFiles' = [i \in 1..(Len(inputFiles) - 1) |->
                      IF i < index THEN inputFiles[i] ELSE inputFiles[i + 1]]
  /\ UNCHANGED <<value, isLoading, aiState, sending, outcome, inputRest>>

\* chat-interface.tsx line 121: the channel's aiState changes.
AiStateChange(st) ==
  /\ aiState' = st
  /\ UNCHANGED <<value, inputFiles, isLoading, sending, outcome, inputRest>>

AiStates == { "none", "AI_STATE_THINKING", "AI_STATE_GENERATING",
              "AI_STATE_EXTERNAL_SOURCES", "AI_STATE_ERROR" }

InitInput == AgentInit /\ env = <<Undef, Undef, Undef>> /\ PureIdle /\ RegIdle /\ InputIdle
NextInput ==
  \/ handleSubmit
  \/ SubmitOk
  \/ SubmitFail
  \/ \E text \in Texts : onValueChange(text)
  \/ \E picked \in Picks : onPickFiles(picked)
  \/ \E index \in 1..MaxFiles : removeFile(index)
  \/ \E st \in AiStates : AiStateChange(st)
SpecInput == InitInput /\ [][NextInput]_vars

\* ------------------------------------------------------------ the claims
Finished(e) == ex[e].pc \in {"done", "rejected"}
Placeholder(e) == channel[ex[e].messageId]

\* C1: handling a message.new event whose message is missing or flagged
\* ai_generated creates no placeholder, emits no indicator event, issues no
\* predict call and leaves history and lastInteractionTs unchanged.
C1_IgnoredEventHasNoEffect ==
  [][ignorable' # ignorable => UNCHANGED <<ex, channel, history, lastInteractionTs>>]_vars

\* An ignorable event was handed to the subscribed handler, at a time when
\* handling a message would have changed lastInteractionTs.
C1_Witness == ignorable > 0 /\ listeners > 0 /\ now # lastInteractionTs

\* C2: once the handling of a qualifying message has finished, exactly one
\* placeholder was created for it, exactly one ai_indicator.clear was sent for
\* it and its text was set, whichever backend or remote calls failed.
C2_OnePlaceholderOneClearTextSet ==
  \A e \in 1..Len(ex) :
    Finished(e) =>
      /\ ex[e].messageId # 0
      /\ Placeholder(e).clears = 1
      /\ Placeholder(e).writes >= 1

\* C3: no exchange ends with its placeholder still showing THINKING or ERROR.
C3_IndicatorClearedAtEnd ==
  \A e \in 1..Len(ex) :
    (Finished(e) /\ ex[e].messageId # 0) =>
      Placeholder(e).ai_state \notin {"AI_STATE_THINKING", "AI_STATE_ERROR"}

\* C4: when an exchange ends, the text of its placeholder is not empty.
C4_TextNeverEmpty ==
  \A e \in 1..Len(ex) : ex[e].pc = "done" => Placeholder(e).text # <<>>

\* The history a result carries in its recognized slot: data[2] if that is an
\* array, else data[1] if that is an array.
HasSlot(r, i) ==
  /\ r.t = "object"
  /\ r.o.data.t = "array"
  /\ Len(r.o.data.a) > i
  /\ r.o.data.a[i + 1].t = "array"
CarriesHistory(r) == HasSlot(r, 1) \/ HasSlot(r, 2)
RecognizedHistory(r) == IF HasSlot(r, 2) THEN r.o.data.a[3] ELSE r.o.data.a[2]
LastAssistantText(h) == h.a[Len(h.a)].a[2].s

RECURSIVE DepthFirstText(_)
DepthFirstText(v) ==
  IF IsString(v) THEN v.s
  ELSE IF IsArray(v)
    THEN JoinNonEmpty([i \in 1..Len(v.a) |-> DepthFirstText(v.a[i])])
  ELSE IF v.t = "object"
    THEN LET fields == SelectSeq(<<v.o.response, v.o.text, v.o.output>>,
                                 LAMBDA f : IsString(f) /\ Len(f.s) > 0)
         IN  IF fields # <<>> THEN fields[1].s
             ELSE IF IsArray(v.o.data) THEN DepthFirstText(v.o.data)
             ELSE <<>>
  ELSE <<>>

\* C6: for a result without history-shaped data, the reply is the depth-first
\* extraction of the result; numbers, booleans and objects without a text
\* field contribute nothing.
C6_ReplyIsDepthFirstText ==
  (applied /\ ~CarriesHistory(arg)) => ret = DepthFirstText(arg)

\* The files C7 describes, attachment by attachment.
NonEmptyUrls(a) ==
  SelectSeq(<<a.image_url, a.asset_url, a.thumb_url, a.og_scrape_url>>,
            LAMBDA u : IsString(u) /\ Len(u.s) > 0)
RECURSIVE ExpectedFiles(_)
ExpectedFiles(atts) ==
  IF atts = <<>> THEN <<>>
  ELSE (IF Head(atts).type = "image" /\ NonEmptyUrls(Head(atts)) # <<>>
        THEN <<[t |-> "file", url |-> NonEmptyUrls(Head(atts))[1].s]>>
        ELSE <<>>) \o ExpectedFiles(Tail(atts))

\* C7: the files are the handles of the image attachments that have a
\* non-empty URL, in the attachments' order, each from the first non-empty URL
\* in the order image_url, asset_url, thumb_url, og_scrape_url.
C7_FilesAreImageHandlesInOrder == applied => ret = ExpectedFiles(arg)

\* The example of the claim: [{image, image_url: u1}, {file}, {image, thumb_url: u2}].
C7_Witness ==
  /\ applied
  /\ arg = ExampleAttachments
  /\ ret = <<[t |-> "file", url |-> <<"u1">>], [t |-> "file", url |-> <<"u2">>]>>

HasChunk(text, c) == \E i \in 1..Len(text) : text[i] = c

\* C8: an exchange whose timeout fired ends with the indicator cleared and the
\* placeholder's text an error string that contains the endpoint base URL.
C8_TimeoutEndsOnFailurePath ==
  \A e \in 1..Len(ex) :
    (ex[e].timedOut /\ Finished(e)) =>
      /\ ex[e].pc = "done"
      /\ Placeholder(e).ai_state = "cleared"
      /\ HasChunk(Placeholder(e).text, "MedGemma timed out")
      /\ HasChunk(Placeholder(e).text, baseUrl.s[1])

\* C9: after two completed calls of dispose, neither call has raised an error
\* and the handler is not subscribed.
C9_DisposeTwiceNoError ==
  (Len(disp) >= 2 /\ \A d \in 1..Len(disp) : disp[d] # "disconnecting") =>
    /\ \A d \in 1..Len(disp) : disp[d] = "resolved"
    /\ listeners = 0

\* C10: no call of dispose throws or rejects.
C10_DisposeNeverRejects == \A d \in 1..Len(disp) : disp[d] # "rejected"

C12_SweepDisposesExactlyTheInactive ==
  [][lastOp' \in {"sweep", "sweep-disposed"} =>
       \A c \in Channels :
         agents[c] # NoAgent =>
           IF now - agents[c].lastInteractionTs > InactivityThreshold
           THEN agents'[c] = NoAgent /\ subscribed'[c] = 0
           ELSE agents'[c] = agents[c] /\ subscribed'[c] = subscribed[c]]_vars

\* A sweep disposed an agent and left the agent of c2, which had a message
\* within the threshold after the threshold had passed since its creation.
C12_Witness ==
  /\ lastOp = "sweep-disposed"
  /\ agents["c1"] = NoAgent
  /\ agents["c2"].initPc = "ready"
  /\ agents["c2"].lastInteractionTs > InactivityThreshold
  /\ now - agents["c2"].lastInteractionTs <= InactivityThreshold

\* C13: a call of dispose on an agent whose init failed does not throw before
\* it reaches disconnectUser: the unset connection handle stays unset (close
\* is not called on it) and no handler is left subscribed.
C13_DisposeAfterFailedInitIsSafe ==
  [][(initPc = "failed" /\ Len(disp') > Len(disp)) =>
       /\ disp'[Len(disp')] = "disconnecting"
       /\ gradioClient' = "unset"
       /\ listeners' = 0]_vars

\* dispose was called on an agent whose connect was rejected in init.
C13_Witness ==
  /\ initPc = "failed" /\ Truthy(baseUrl)
  /\ Len(disp) > 0 /\ gradioClient = "unset" /\ listeners = 0

\* The predict calls of an exchange: primary first, the positional call only
\* after the primary call failed, nothing after the positional call.
PredictOrder(e) ==
  ex'[e].tp # ex[e].tp =>
    <<ex[e].tp, ex'[e].tp>> \in { <<"none", "primary">>, <<"primary", "fallback">>,
                                  <<"primary", "settled">>, <<"fallback", "settled">> }
OnFailurePath(x) == x.pc \in {"cError", "cUpdate", "cClear"}
BothFailedOrTimedOut(e) ==
  \/ ex'[e].timedOut
  \/ ex[e].tp = "fallback" /\ ex'[e].tp = "settled"

\* C14, as stated: the predict calls are made in the fixed order, and an
\* exchange enters the failure path only when the positional call has failed
\* after the primary call, or when the timeout fired.
C14_FailurePathOnlyAfterBothFailed ==
  [][\A e \in 1..Len(ex) :
       /\ PredictOrder(e)
       /\ (~OnFailurePath(ex[e]) /\ OnFailurePath(ex'[e])) => BothFailedOrTimedOut(e)]_vars

\* C14, amended: the predict calls are made in the fixed order, and an
\* exchange enters the failure path when the positional call has failed after
\* the primary call, when the timeout fired, before any predict call (the lazy
\* connect or the attachment resolution threw), or after the call succeeded
\* (the text update or the indicator clear was rejected).
C14_PredictOrderAndFailureCauses ==
  [][\A e \in 1..Len(ex) :
       /\ PredictOrder(e)
       /\ (~OnFailurePath(ex[e]) /\ OnFailurePath(ex'[e])) =>
            \/ BothFailedOrTimedOut(e)
            \/ ex[e].pc = "thinking" /\ ex[e].tp = "none" /\ ex'[e].tp = "none"
            \/ ex[e].pc \in {"update", "clear"} /\ ex[e].tp = "settled"]_vars

\* An exchange is on the failure path because both predict calls failed.
C14_Witness ==
  \E e \in 1..Len(ex) :
    ex[e].pc = "cError" /\ ex[e].tp = "settled" /\ ex[e].error \in RemoteErrors

\* C15: the text of a placeholder is written at most once, and exactly once
\* when its exchange has ended.
C15_TextMutatedOnce ==
  /\ \A m \in 1..Len(channel) : channel[m].writes <= 1
  /\ \A e \in 1..Len(ex) : ex[e].pc = "done" => Placeholder(e).writes = 1

\* C16: an exchange on the failure path has not changed the history.
C16_FailurePathLeavesHistory ==
  \A e \in 1..Len(ex) : OnFailurePath(ex[e]) => ~ex[e].mutated

\* C17: no invocation of the handler ends in a rejected promise, and a failed
\* exchange leaves the handler subscribed.
C17_NoErrorEscapesHandler ==
  [][/\ \A e \in 1..Len(ex') : ex'[e].pc # "rejected"
     /\ (listeners' < listeners) => Len(disp') > Len(disp)]_vars

\* C18: without a base URL init does not get past its check, and an init that
\* failed has opened no connection and subscribed no handler.
C18_FailedInitHasNoEffect ==
  /\ ~Truthy(baseUrl) => initPc \in {"new", "failed"} /\ gradioClient = "unset" /\ listeners = 0
  /\ initPc = "failed" => gradioClient = "unset" /\ listeners = 0

\* The base URL is configured and the connect of init was rejected.
C18_Witness == initPc = "failed" /\ Truthy(baseUrl) /\ disp = <<>>

\* C19: the step that takes a result makes the history the one the result
\* carries, or, when it carries none and there is a reply, the old history
\* with one more pair whose assistant text is the reply.
C19_TurnKeptAfterSuccess ==
  [][\A e \in 1..Len(ex) :
       (ex[e].pc = "predict" /\ ex'[e].pc = "update") =>
         IF CarriesHistory(ex'[e].result)
         THEN history' = RecognizedHistory(ex'[e].result)
         ELSE ex'[e].lastReply # <<>> =>
              /\ Len(history'.a) = Len(history.a) + 1
              /\ SubSeq(history'.a, 1, Len(history.a)) = history.a
              /\ LastAssistantText(history') = ex'[e].lastReply]_vars

\* C20: a placeholder's text becomes the diagnostic only while it shows ERROR,
\* the diagnostic names the failure hint, the endpoint base and the path the
\* predict calls were made with, ERROR is left only by the clear that follows
\* the diagnostic, and an exchange that has ended takes no further step.
C20_FailurePathOrder ==
  [][/\ \A m \in 1..Len(channel) :
          /\ (channel'[m].text # channel[m].text
                /\ HasChunk(channel'[m].text, "Gradio call failed (baseUrl=")) =>
               /\ channel[m].ai_state = "AI_STATE_ERROR"
               /\ channel'[m].ai_state = "AI_STATE_ERROR"
               /\ \A i \in 1..Len(ToStr(baseUrl)) : HasChunk(channel'[m].text, ToStr(baseUrl)[i])
               /\ HasChunk(channel'[m].text, ApiName.s[1])
          /\ (channel[m].ai_state = "AI_STATE_ERROR" /\ channel'[m].ai_state # "AI_STATE_ERROR") =>
               /\ channel'[m].ai_state = "cleared"
               /\ HasChunk(channel[m].text, "Gradio call failed (baseUrl=")
     /\ \A e \in 1..Len(ex) :
          /\ Finished(e) => ex'[e] = ex[e]
          /\ OnFailurePath(ex[e]) => ex'[e].pc \in {"cError", "cUpdate", "cClear", "done", "rejected"}]_vars

\* The exchange whose step changes the state of the exchanges, if exactly one does.
OnlyStepOf(e) == ex'[e] # ex[e] /\ \A o \in 1..Len(ex) : o # e => ex'[o] = ex[o]

\* C21: exchanges have placeholders of their own, and every step that creates
\* or changes a placeholder is a step of the one exchange that placeholder
\* belongs to, whatever the other exchanges are doing.
C21_WritesTargetOwnPlaceholder ==
  [][/\ \A e, o \in 1..Len(ex') :
          (e # o /\ ex'[e].messageId # 0) => ex'[e].messageId # ex'[o].messageId
     /\ \A m \in 1..Len(channel) :
          channel'[m] # channel[m] =>
            \E e \in 1..Len(ex) : ex[e].messageId = m /\ OnlyStepOf(e)
     /\ Len(channel') > Len(channel) =>
          \E e \in 1..Len(ex) :
            /\ ex[e].messageId = 0 /\ ex'[e].messageId = Len(channel')
            /\ OnlyStepOf(e)]_vars

\* The second message arrived while the first exchange awaited its remote
\* call, got a placeholder and a remote call of its own and completed first.
C21_Witness ==
  /\ Len(ex) = 2
  /\ ex[1].pc = "predict" /\ ex[1].messageId = 1 /\ Placeholder(1).writes = 0
  /\ ex[2].pc = "done" /\ ex[2].messageId = 2 /\ Placeholder(2).writes = 1

Disposed == \E d \in 1..Len(disp) : disp[d] = "resolved"

\* C22: once a call of dispose has completed, no step creates or changes a
\* placeholder, issues a predict call or opens a remote connection, and no
\* exchange begins.
C22_DisposedIsTerminal ==
  [][Disposed =>
       /\ channel' = channel
       /\ Len(ex') = Len(ex)
       /\ \A e \in 1..Len(ex) :
            ex'[e].tp # ex[e].tp => ex'[e].tp \notin {"primary", "fallback"}
       /\ gradioClient' = "open" => gradioClient = "open"]_vars

\* C23: lastInteractionTs changes only in the step that begins an exchange for
\* a qualifying message, that step sets it to the current time before the
\* placeholder exists, and it is never later than the clock.
C23_LastInteractionOnlyByQualifyingMessage ==
  [][/\ lastInteractionTs' # lastInteractionTs => Len(ex') = Len(ex) + 1
     /\ Len(ex') = Len(ex) + 1 =>
          /\ lastInteractionTs' = now
          /\ ex'[Len(ex')].messageId = 0
          /\ channel' = channel
     /\ ignorable' # ignorable => lastInteractionTs' = lastInteractionTs]_vars

\* The time of a qualifying message is recorded although the creation of its
\* placeholder was rejected, and an ignorable event has been handled too.
C23_Witness ==
  /\ Len(ex) = 1 /\ ex[1].pc = "rejected" /\ ex[1].messageId = 0
  /\ ignorable > 0
  /\ lastInteractionTs = TickMs /\ now = TickMs

\* C24: when the remote call of an exchange whose timeout has fired settles,
\* the history, the channel and the position of the exchange stay as they are.
C24_LateResultChangesNothing ==
  [][\A e \in 1..Len(ex) :
       (ex[e].timedOut /\ ex'[e].tp # ex[e].tp) =>
         /\ history' = history
         /\ channel' = channel
         /\ ex'[e].pc = ex[e].pc
         /\ ex'[e].mutated = ex[e].mutated]_vars

\* The timeout of an exchange fired, its error text was written, and its
\* remote call has settled since.
C24_Witness ==
  \E e \in 1..Len(ex) :
    /\ ex[e].timedOut /\ ex[e].tp = "settled" /\ ex[e].pc = "done"
    /\ HasChunk(Placeholder(e).text, "MedGemma timed out")
    /\ history = Arr(<<>>)

\* C25: when an exchange takes a result that carries a history while another
\* exchange, which has replaced the history already, is still in flight, the
\* history becomes the one just returned, whichever message arrived first.
C25_LastCompletedHistoryWins ==
  [][\A e, o \in 1..Len(ex) :
       (/\ e # o
        /\ ex[o].mutated /\ ex[o].pc \in {"update", "clear"}
        /\ ex[e].pc = "predict" /\ ex'[e].pc = "update"
        /\ CarriesHistory(ex'[e].result))
         => /\ history' = RecognizedHistory(ex'[e].result)
            /\ ex'[e].mutated = (history' # history)]_vars

\* The second exchange returned H2 first; the first exchange then returned H1,
\* which is the history now.
C25_Witness ==
  /\ Len(ex) = 2
  /\ ex[2].pc = "clear" /\ ex[2].mutated /\ Placeholder(2).text = <<"again">>
  /\ ex[1].pc = "update" /\ ex[1].mutated /\ ex[1].result = Data(<<Str(<<>>), H1>>)
  /\ history = H1

\* C26: the handler is subscribed, and handleMessage runs, only with the
\* connection handle set; the handle is set by init alone and only once.
C26_OneConnectionSetByInit ==
  [][/\ (listeners' > 0 \/ Len(ex') > 0) => gradioClient' # "unset"
     /\ gradioClient' # gradioClient =>
          \/ gradioClient = "unset" /\ gradioClient' = "open" /\ initPc = "connecting"
          \/ gradioClient = "open" /\ gradioClient' = "closed" /\ Len(disp') > Len(disp)]_vars

\* Both predict calls of an exchange failed and the connection of init is
\* still the agent's connection.
C26_Witness ==
  /\ gradioClient = "open" /\ initPc = "ready"
  /\ \E e \in 1..Len(ex) : ex[e].pc = "done" /\ ex[e].tp = "settled"
                           /\ HasChunk(Placeholder(e).text, "predict failed")

\* C27: normalisation adopts data[2] when it is an array, whatever data[1] is;
\* it adopts data[1] when that is an array and data[2] is not; otherwise it
\* leaves the history as it is and the reply is the text extracted from the
\* result.
C27_StateSlotPreferred ==
  [][(applied' /\ ~applied) =>
       IF HasSlot(arg, 2) THEN history' = arg.o.data.a[3]
       ELSE IF HasSlot(arg, 1) THEN history' = arg.o.data.a[2]
       ELSE /\ history' = history
            /\ ret' = parseText(Nullish(Prop(arg), arg))]_vars

\* Both slots of the result were arrays, different ones, and the local
\* history was not empty: the history is now data[2].
C27_Witness ==
  /\ applied
  /\ HasSlot(arg, 1) /\ HasSlot(arg, 2)
  /\ arg.o.data.a[2] = H1 /\ arg.o.data.a[3] = HEmptyReply
  /\ history = HEmptyReply

\* C28: a submit starts a send only with text or a file, and with nothing
\* loading or generating; when a send ends nothing is loading any more; a
\* send that failed leaves text and files, and only a send that succeeded
\* clears them.
C28_SubmitGuardAndCleanup ==
  [][/\ Len(sending') > Len(sending) =>
          /\ trim(value) # <<>> \/ Len(inputFiles) > 0
          /\ ~isLoading
          /\ aiState \notin {"AI_STATE_THINKING", "AI_STATE_GENERATING",
                             "AI_STATE_EXTERNAL_SOURCES"}
          /\ Len(sending) = 0
     /\ Len(sending') < Len(sending) =>
          /\ isLoading' = FALSE
          /\ outcome' = "error" => (value' = value /\ inputFiles' = inputFiles)
          /\ outcome' = "sent" => (value' = <<>> /\ inputFiles' = <<>>)]_vars

\* A send of text and a file failed: nothing is loading, and the text and the
\* file are still in the input.
C28_Witness ==
  /\ outcome = "error" /\ sending = <<>> /\ ~isLoading
  /\ value = <<"hi">> /\ Len(inputFiles) = 1

====
